---------------------------- MODULE Spec2Model ----------------------------
(***************************************************************************)
(* A model of src/matrix.py, class Matrix.                                 *)
(*                                                                         *)
(* A Matrix object holds one field, _list: a list of row lists.  Row lists *)
(* live on a heap (a sequence of rows, the address of a row is its index); *)
(* an object's _list is the sequence of its rows' addresses.  Operations   *)
(* that only read a matrix are operators over the list-of-lists value of   *)
(* the object, Val(heap, obj); operations that allocate or write are       *)
(* operators over the heap.                                                *)
(*                                                                         *)
(* Python indices are 0-based: At(L, r, c) is L[r][c].  A call's outcome   *)
(* is a record [tag, val]: tag "ok" with the returned value, tag "None"    *)
(* for a returned None, or the name of the exception raised.               *)
(*                                                                         *)
(* Numbers are exact.  The one division of the source, 1/det in inverse(), *)
(* is kept as a denominator: a matrix with fractional entries is a record  *)
(* [num, den], the integer matrix num with every entry divided by den.     *)
(***************************************************************************)
EXTENDS Integers, Sequences, FiniteSets, TLC

VARIABLES heap, A, B, R, op, res, muts

vars == <<heap, A, B, R, op, res, muts>>

-----------------------------------------------------------------------------
(* Bounds of the checked instances *)

MaxN == 3        \* largest row/column count of an input matrix
MaxPow == 2      \* exponents p range over -MaxPow..MaxPow
MaxMut == 1      \* in-place operations applied after a copy-producing one
MaxA == 3        \* largest row/column count of the operands of an aliasing run
MaxIdx == 3      \* slice endpoints range over -MaxIdx..MaxIdx and absent

Vals == {0, 1}   \* entries of the enumerated input matrices

-----------------------------------------------------------------------------
(* Outcomes of a call *)

Ok(v) == [tag |-> "ok", val |-> v]

Raise(e) == [tag |-> e, val |-> 0]

NoneVal == [tag |-> "None", val |-> 0]

IsOk(x) == x.tag = "ok"

(* Sum of f[k] for k in lo..hi, as Python's sum() over a generator *)
RECURSIVE SumFn(_, _, _)
SumFn(f, lo, hi) == IF lo > hi THEN 0 ELSE f[lo] + SumFn(f, lo + 1, hi)

(* The first k in lo..hi (in iteration order) with P[k] *)
FirstIn(P, lo, hi) == CHOOSE k \in lo..hi : P[k] /\ \A j \in lo..(k - 1) : ~P[j]

-----------------------------------------------------------------------------
(* Reading a matrix: operators over self._list as a list of lists *)

At(L, r, c) == L[r + 1][c + 1]

rows(L) == Len(L)

columns(L) == IF Len(L) = 0 THEN Raise("IndexError") ELSE Ok(Len(L[1]))

size(L) ==
    LET cs == columns(L)
    IN  IF IsOk(cs) THEN Ok(<<rows(L), cs.val>>) ELSE cs

is_square(L) ==
    LET cs == columns(L)
    IN  IF IsOk(cs) THEN Ok(rows(L) = cs.val) ELSE cs

zero(m, n) == [i \in 1..m |-> [j \in 1..n |-> 0]]

identity(n) == [i \in 1..n |-> [j \in 1..n |-> IF i = j THEN 1 ELSE 0]]

(* rows i not in delr, columns j not in delc, in order; self.columns is read
   only while a kept row is built *)
RECURSIVE Keep(_, _, _)
Keep(s, del, k) ==
    IF k > Len(s) THEN <<>>
    ELSE IF (k - 1) \in del THEN Keep(s, del, k + 1)
    ELSE <<s[k]>> \o Keep(s, del, k + 1)

submatrix(L, delr, delc) ==
    LET kept == Keep(L, delr, 1)
    IN  [i \in 1..Len(kept) |-> Keep(kept[i], delc, 1)]

Sign(k) == IF k % 2 = 0 THEN 1 ELSE -1

RECURSIVE determinant(_), minor(_, _, _)
(* the expansion along row 0 without the alternating sign *)
determinant_NoSign(L) ==
    LET sq == is_square(L)
    IN  IF ~IsOk(sq) THEN sq
        ELSE IF ~sq.val THEN Raise("ValueError")
        ELSE IF rows(L) = 2 /\ Len(L[1]) = 2
             THEN Ok(At(L, 0, 0) * At(L, 1, 1) - At(L, 0, 1) * At(L, 1, 0))
        ELSE LET n == Len(L[1])
                 m == [c \in 0..(n - 1) |-> minor(L, 0, c)]
                 bad == [c \in 0..(n - 1) |-> ~IsOk(m[c])]
             IN  IF \E c \in 0..(n - 1) : bad[c]
                 THEN m[FirstIn(bad, 0, n - 1)]
                 ELSE Ok(SumFn([c \in 0..(n - 1) |-> At(L, 0, c) * m[c].val],
                               0, n - 1))

determinant(L) ==
    LET sq == is_square(L)
    IN  IF ~IsOk(sq) THEN sq
        ELSE IF ~sq.val THEN Raise("ValueError")
        ELSE IF rows(L) = 2 /\ Len(L[1]) = 2
             THEN Ok(At(L, 0, 0) * At(L, 1, 1) - At(L, 0, 1) * At(L, 1, 0))
        ELSE LET n == Len(L[1])
                 m == [c \in 0..(n - 1) |-> minor(L, 0, c)]
                 bad == [c \in 0..(n - 1) |-> ~IsOk(m[c])]
             IN  IF \E c \in 0..(n - 1) : bad[c]
                 THEN m[FirstIn(bad, 0, n - 1)]
                 ELSE Ok(SumFn([c \in 0..(n - 1) |->
                                   At(L, 0, c) * m[c].val * Sign(c)],
                               0, n - 1))

minor(L, r, c) == determinant(submatrix(L, {r}, {c}))

transpose(L) ==
    LET cs == columns(L)
    IN  IF ~IsOk(cs) THEN cs
        ELSE Ok([r \in 1..cs.val |-> [c \in 1..rows(L) |-> L[c][r]]])

cofactor(L) ==
    LET cs == columns(L)
    IN  IF ~IsOk(cs) THEN cs
        ELSE Ok([r \in 1..rows(L) |->
                   [c \in 1..cs.val |-> L[r][c] * Sign((r - 1) + (c - 1))]])

adjugate(L) ==
    LET cf == cofactor(L)
    IN  IF ~IsOk(cf) THEN cf ELSE transpose(cf.val)

(* self * k, entry by entry *)
mul(L, k) == [r \in 1..Len(L) |-> [c \in 1..Len(L[r]) |-> L[r][c] * k]]

(* self @ other *)
matmul(L, M) ==
    LET cs == columns(L)
    IN  IF ~IsOk(cs) THEN cs
        ELSE IF cs.val # rows(M) THEN Raise("ValueError")
        ELSE LET oc == columns(M)
             IN  IF ~IsOk(oc) THEN oc
                 ELSE Ok([r \in 1..rows(L) |-> [c \in 1..oc.val |->
                          SumFn([i \in 0..(rows(M) - 1) |->
                                   At(L, r - 1, i) * At(M, i, c - 1)],
                                0, rows(M) - 1)]])

(* Matrices with fractional entries: num with every entry divided by den *)
Frac(L, d) == [num |-> L, den |-> d]

(* the matrix of minors built by Matrix.zero(size).fill(minor); the first failing
   minor in fill's row-major order is the call's outcome *)
minors(L) ==
    LET n == rows(L)
        c == Len(L[1])
        m == [k \in 0..(n * c - 1) |-> minor(L, k \div c, k % c)]
        bad == [k \in 0..(n * c - 1) |-> ~IsOk(m[k])]
    IN  IF \E k \in 0..(n * c - 1) : bad[k]
        THEN m[FirstIn(bad, 0, n * c - 1)]
        ELSE Ok([r \in 1..n |-> [j \in 1..c |-> m[(r - 1) * c + (j - 1)].val]])

inverse(L) ==
    LET sq == is_square(L)
    IN  IF ~IsOk(sq) THEN sq
        ELSE LET det == IF sq.val THEN determinant(L) ELSE Ok(0)
             IN  IF ~IsOk(det) THEN det
                 ELSE IF det.val = 0 THEN NoneVal
                 ELSE LET mm == minors(L)
                      IN  IF ~IsOk(mm) THEN mm
                          ELSE Ok(Frac(adjugate(mm.val).val, det.val))

(* self.determinant is the bound method, never called: it never equals 0 *)
is_invertible(L) ==
    LET sq == is_square(L)
        methodIsZero == FALSE
    IN  IF ~IsOk(sq) THEN sq ELSE Ok(~sq.val \/ methodIsZero)

is_singular(L) ==
    LET inv == is_invertible(L)
    IN  IF ~IsOk(inv) THEN inv ELSE Ok(~inv.val)

(* new @= self: Matrix defines no in-place @, so new is rebound to new @ self;
   new is a fractional matrix, None, or the copy of self *)
FracMatmul(X, M) ==
    LET pr == matmul(X.num, M)
    IN  IF ~IsOk(pr) THEN pr ELSE Ok(Frac(pr.val, X.den))

RECURSIVE PowLoop(_, _, _)
PowLoop(new, L, p) ==
    IF p <= 1 THEN new
    ELSE IF new.tag = "None" THEN Raise("TypeError")
    ELSE LET nx == FracMatmul(new.val, L)
         IN  IF ~IsOk(nx) THEN nx ELSE PowLoop(nx, L, p - 1)

pow(L, p) ==
    LET sq == is_square(L)
    IN  IF ~IsOk(sq) THEN sq
        ELSE IF ~sq.val /\ p \notin {1, -1} THEN Raise("ValueError")
        ELSE IF p = 0 THEN Ok(Frac(identity(rows(L)), 1))
        ELSE LET new == IF p < 0 THEN inverse(L) ELSE Ok(Frac(L, 1))
                 q == IF p < 0 THEN -p ELSE p
             IN  IF new.tag \notin {"ok", "None"} THEN new
                 ELSE PowLoop(new, L, q)

(* the loop over r in range(rows - 1), zero_row carried along *)
RECURSIVE EchelonFrom(_, _, _)
EchelonFrom(L, r, zero_row) ==
    IF r >= rows(L) - 1 THEN TRUE
    ELSE LET nz == {c \in 0..(Len(L[1]) - 1) : At(L, r, c) # 0}
         IN  IF nz = {} THEN EchelonFrom(L, r + 1, TRUE)
             ELSE LET c == CHOOSE x \in nz : \A y \in nz : x <= y
                  IN  IF zero_row \/ At(L, r + 1, c) # 0 THEN FALSE
                      ELSE EchelonFrom(L, r + 1, zero_row)

is_echelon(L) == Ok(EchelonFrom(L, 0, FALSE))

(* Python's list indexing: a negative index counts from the end *)
PyIndex(len, i) == IF i < 0 THEN i + len ELSE i

InRange(len, i) == PyIndex(len, i) >= 0 /\ PyIndex(len, i) < len

(* self._list[i][j] *)
getitem(L, i, j) ==
    IF ~InRange(Len(L), i) THEN Raise("IndexError")
    ELSE LET row == L[PyIndex(Len(L), i) + 1]
         IN  IF ~InRange(Len(row), j) THEN Raise("IndexError")
             ELSE Ok(row[PyIndex(Len(row), j) + 1])

(* A slice endpoint: absent (None) or an integer *)
Absent == [none |-> TRUE, v |-> 0]

Given(v) == [none |-> FALSE, v |-> v]

(* self[istart:istop, jstart:jstop]; self.columns is read only for a negative
   jstart or an absent or negative jstop *)
getslice(L, i0, i1, j0, j1) ==
    LET needCols == (~j0.none /\ j0.v < 0) \/ j1.none \/ j1.v < 0
        cs == columns(L)
    IN  IF needCols /\ ~IsOk(cs) THEN cs
        ELSE
        LET ncol == IF needCols THEN cs.val ELSE 0
            istart == IF i0.none THEN 0 ELSE IF i0.v < 0 THEN i0.v + rows(L) ELSE i0.v
            istop == IF i1.none THEN rows(L) ELSE IF i1.v < 0 THEN i1.v + rows(L) ELSE i1.v
            jstart == IF j0.none THEN 0 ELSE IF j0.v < 0 THEN j0.v + ncol ELSE j0.v
            jstop == IF j1.none THEN ncol ELSE IF j1.v < 0 THEN j1.v + ncol ELSE j1.v
            nr == istop - istart
            nc == jstop - jstart
        IN  IF nr < 1 \/ nc < 1 THEN Ok(<<>>)
            ELSE LET m == [k \in 0..(nr * nc - 1) |->
                             getitem(L, istart + (k \div nc), jstart + (k % nc))]
                     bad == [k \in 0..(nr * nc - 1) |-> ~IsOk(m[k])]
                 IN  IF \E k \in 0..(nr * nc - 1) : bad[k]
                     THEN m[FirstIn(bad, 0, nr * nc - 1)]
                     ELSE Ok([r \in 1..nr |-> [c \in 1..nc |->
                                 m[(r - 1) * nc + (c - 1)].val]])

-----------------------------------------------------------------------------
(* Objects on the heap *)

Obj(list) == [live |-> TRUE, list |-> list]

NoObj == [live |-> FALSE, list |-> <<>>]

Val(h, o) == [i \in 1..Len(o.list) |-> h[o.list[i]]]

(* self[r, c] and self[r, c] = v on an object, indices in range *)
Read(h, o, r, c) == h[o.list[r + 1]][c + 1]

Write(h, o, r, c, v) == [h EXCEPT ![o.list[r + 1]][c + 1] = v]

setitem(h, o, r, c, v) == Write(h, o, r, c, v)

(* The functions handed to fill, as data: fn names the lambda, the other
   fields are what it closes over *)
Lam(fn, of, other, k, rws) == [fn |-> fn, of |-> of, other |-> other, k |-> k, rws |-> rws]

(* func(r, c), evaluated on the heap as it is when the cell is reached *)
Apply(f, h, r, c) ==
    CASE f.fn = "copy" -> Read(h, f.of, r, c)
      [] f.fn = "iadd" -> Read(h, f.of, r, c) + Read(h, f.other, r, c)
      [] f.fn = "imul" -> Read(h, f.of, r, c) * f.k
      [] f.fn = "rows" -> f.rws[r + 1][c + 1]
      [] f.fn = "index" -> r + c

(* Matrix.raw of a list of m freshly built row lists *)
Alloc(h, L) == [h |-> h \o L, o |-> Obj([i \in 1..Len(L) |-> Len(h) + i])]

Matrix_zero(h, m, n) == Alloc(h, zero(m, n))

(* fill: row by row, column by column, each cell written as soon as computed *)
fill(h, o, f) ==
    IF Len(o.list) = 0 THEN h
    ELSE LET n == Len(h[o.list[1]])
             st[k \in 0..(Len(o.list) * n)] ==
                 IF k = 0 THEN h
                 ELSE LET hh == st[k - 1]
                          r == (k - 1) \div n
                          c == (k - 1) % n
                      IN  Write(hh, o, r, c, Apply(f, hh, r, c))
         IN  st[Len(o.list) * n]

Matrix_identity(h, n) ==
    LET z == Matrix_zero(h, n, n)
        st[i \in 0..n] == IF i = 0 THEN z.h ELSE Write(st[i - 1], z.o, i - 1, i - 1, 1)
    IN  [h |-> st[n], o |-> z.o]

Done(h, o) == [tag |-> "ok", h |-> h, o |-> o]

Fail(e, h) == [tag |-> e, h |-> h, o |-> NoObj]

(* raw(self._list): the new object holds the operand's own rows *)
copy_Shared(h, o) == Done(h, o)

copy(h, o) ==
    LET sz == size(Val(h, o))
    IN  IF ~IsOk(sz) THEN Fail(sz.tag, h)
        ELSE LET z == Matrix_zero(h, sz.val[1], sz.val[2])
             IN  Done(fill(z.h, z.o, Lam("copy", o, NoObj, 0, <<>>)), z.o)

(* Matrix(rows) from a nested sequence *)
Matrix_init(h, rws) ==
    IF Len(rws) = 0 \/ Len(rws[1]) = 0 THEN Done(h, Obj(<<>>))
    ELSE LET z == Matrix_zero(h, Len(rws), Len(rws[1]))
         IN  Done(fill(z.h, z.o, Lam("rows", NoObj, NoObj, 0, rws)), z.o)

iadd(h, o, other) ==
    LET s1 == size(Val(h, o))
        s2 == size(Val(h, other))
    IN  IF ~IsOk(s1) THEN Fail(s1.tag, h)
        ELSE IF ~IsOk(s2) THEN Fail(s2.tag, h)
        ELSE IF s1.val # s2.val THEN Fail("ValueError", h)
        ELSE Done(fill(h, o, Lam("iadd", o, other, 0, <<>>)), o)

imul(h, o, k) == Done(fill(h, o, Lam("imul", o, NoObj, k, <<>>)), o)

add(h, o, other) ==
    LET cp == copy(h, o)
    IN  IF cp.tag # "ok" THEN cp ELSE iadd(cp.h, cp.o, other)

mul_obj(h, o, k) ==
    LET cp == copy(h, o)
    IN  IF cp.tag # "ok" THEN cp ELSE imul(cp.h, cp.o, k)

(* zero(...).fill(f) where f reads the operands only: the value is computed
   by the reading operator, and an exception raised while filling leaves the
   half-filled new object unreachable *)
Filled(h, outcome) ==
    IF ~IsOk(outcome) THEN Fail(outcome.tag, h)
    ELSE IF Len(outcome.val) = 0 THEN Done(h, Obj(<<>>))
    ELSE LET z == Matrix_zero(h, Len(outcome.val), Len(outcome.val[1]))
         IN  Done(fill(z.h, z.o, Lam("rows", NoObj, NoObj, 0, outcome.val)), z.o)

matmul_obj(h, o, other) == Filled(h, matmul(Val(h, o), Val(h, other)))

transpose_obj(h, o) == Filled(h, transpose(Val(h, o)))

(* Row operations, in place; indices in range *)
rowadd(h, o, i, j, k) ==
    LET cs == columns(Val(h, o))
    IN  IF ~IsOk(cs) THEN Fail(cs.tag, h)
        ELSE LET st[c \in 0..cs.val] ==
                     IF c = 0 THEN h
                     ELSE LET hh == st[c - 1]
                          IN  Write(hh, o, i, c - 1,
                                    Read(hh, o, i, c - 1) + Read(hh, o, j, c - 1) * k)
             IN  Done(st[cs.val], o)

(* self[i, c] = k for self[i, c] *= k *)
rowmult_Assign(h, o, i, k) ==
    LET cs == columns(Val(h, o))
    IN  IF ~IsOk(cs) THEN Fail(cs.tag, h)
        ELSE LET st[c \in 0..cs.val] ==
                     IF c = 0 THEN h ELSE Write(st[c - 1], o, i, c - 1, k)
             IN  Done(st[cs.val], o)

rowmult(h, o, i, k) ==
    LET cs == columns(Val(h, o))
    IN  IF ~IsOk(cs) THEN Fail(cs.tag, h)
        ELSE LET st[c \in 0..cs.val] ==
                     IF c = 0 THEN h
                     ELSE LET hh == st[c - 1]
                          IN  Write(hh, o, i, c - 1, Read(hh, o, i, c - 1) * k)
             IN  Done(st[cs.val], o)

(* the right-hand tuple is read before either cell is written *)
rowswap(h, o, i, j) ==
    LET cs == columns(Val(h, o))
    IN  IF ~IsOk(cs) THEN Fail(cs.tag, h)
        ELSE LET st[c \in 0..cs.val] ==
                     IF c = 0 THEN h
                     ELSE LET hh == st[c - 1]
                          IN  Write(Write(hh, o, i, c - 1, Read(hh, o, j, c - 1)),
                                    o, j, c - 1, Read(hh, o, i, c - 1))
             IN  Done(st[cs.val], o)

(* kwargs: [i, j, k, hasj, hask]; an absent j or k is None *)
Kw(i, j, k, hasj, hask) == [i |-> i, j |-> j, k |-> k, hasj |-> hasj, hask |-> hask]

ielem(h, o, kw) ==
    IF ~kw.hasj
    THEN IF ~kw.hask THEN Fail("NameError", h) ELSE rowmult(h, o, kw.i, kw.k)
    ELSE IF ~kw.hask THEN rowswap(h, o, kw.i, kw.j) ELSE rowadd(h, o, kw.i, kw.j, kw.k)

elem(h, o, kw) ==
    LET cp == copy(h, o)
    IN  IF cp.tag # "ok" THEN cp ELSE ielem(cp.h, cp.o, kw)

Matrix_elementary(h, n, kw) ==
    LET id == Matrix_identity(h, n)
    IN  ielem(id.h, id.o, kw)

(* inverse() of an object whose determinant is 1 or -1, where the factor
   1/det is det itself: minors.adjugate() * (1/det), the product a copy scaled
   in place *)
inverse_obj(h, o) ==
    LET inv == inverse(Val(h, o))
    IN  IF inv.tag = "None" THEN [tag |-> "None", h |-> h, o |-> NoObj]
        ELSE IF ~IsOk(inv) THEN Fail(inv.tag, h)
        ELSE LET adj == Filled(h, Ok(inv.val.num))
             IN  mul_obj(adj.h, adj.o, inv.val.den)

RECURSIVE PowObjLoop(_, _, _)
PowObjLoop(new, self, q) ==
    IF q <= 1 THEN new
    ELSE IF new.tag = "None" THEN Fail("TypeError", new.h)
    ELSE LET nx == matmul_obj(new.h, new.o, self)
         IN  IF nx.tag # "ok" THEN nx ELSE PowObjLoop(nx, self, q - 1)

pow_obj(h, o, p) ==
    LET sq == is_square(Val(h, o))
    IN  IF ~IsOk(sq) THEN Fail(sq.tag, h)
        ELSE IF ~sq.val /\ p \notin {1, -1} THEN Fail("ValueError", h)
        ELSE IF p = 0
             THEN LET id == Matrix_identity(h, Len(o.list)) IN Done(id.h, id.o)
        ELSE LET cp == copy(h, o)
                 new == IF cp.tag = "ok" /\ p < 0 THEN inverse_obj(cp.h, cp.o) ELSE cp
             IN  IF new.tag \notin {"ok", "None"} THEN new
                 ELSE PowObjLoop(new, o, IF p < 0 THEN -p ELSE p)

(* The demo's matrices *)
M1 == <<<<4, 6>>, <<3, 8>>>>

M2 == <<<<3, 0, 2>>, <<2, 0, -2>>, <<0, 1, 1>>>>

M3 == <<<<4, 2, 3, 1, 4>>, <<0, 2, 1, 4, 0>>, <<0, 0, 0, 3, 0>>>>

AllMatrices(m, n) == [1..m -> [1..n -> Vals]]

Inputs == {M1, M2, M3} \cup UNION {AllMatrices(m, n) : m \in 1..MaxN, n \in 1..MaxN}

(* The m x n matrix with entries 1, 2, ..., m*n in row-major order *)
Coded(m, n) == [r \in 1..m |-> [c \in 1..n |-> (r - 1) * n + c]]

Shapes == {M1, M2, M3} \cup {Coded(m, n) : m \in 1..MaxN, n \in 1..MaxN}

(* A freshly constructed matrix with rows L at addresses 1..Len(L) *)
Fresh(L) == Obj([i \in 1..Len(L) |-> i])

-----------------------------------------------------------------------------
(* Determinant, inverse, invertibility and powers of one matrix *)

InitDet ==
    /\ \E L \in Inputs : heap = L /\ A = Fresh(L)
    /\ B = NoObj
    /\ R = NoObj
    /\ op = [name |-> "new", arg |-> 0]
    /\ res = NoneVal
    /\ muts = 0

Call(name, arg, outcome) ==
    /\ op.name = "new"
    /\ op' = [name |-> name, arg |-> arg]
    /\ res' = outcome
    /\ UNCHANGED <<heap, A, B, R, muts>>

DoDeterminant == Call("determinant", 0, determinant(Val(heap, A)))

DoInverse == Call("inverse", 0, inverse(Val(heap, A)))

DoIsInvertible == Call("is_invertible", 0, is_invertible(Val(heap, A)))

DoIsSingular == Call("is_singular", 0, is_singular(Val(heap, A)))

DoPow == \E p \in (-MaxPow)..MaxPow : Call("pow", p, pow(Val(heap, A), p))

NextDet == DoDeterminant

SpecDet == InitDet /\ [][NextDet]_vars

NextInv == DoInverse \/ DoIsInvertible \/ DoIsSingular \/ DoPow

SpecInv == InitDet /\ [][NextInv]_vars

-----------------------------------------------------------------------------
(* Row echelon test of one matrix *)

DoIsEchelon == Call("is_echelon", 0, is_echelon(Val(heap, A)))

NextEchelon == DoIsEchelon

SpecEchelon == InitDet /\ [][NextEchelon]_vars

-----------------------------------------------------------------------------
(* Operations that return a new matrix R *)

InitShapes(S) ==
    /\ \E L \in S : heap = L /\ A = Fresh(L)
    /\ B = NoObj
    /\ R = NoObj
    /\ op = [name |-> "new", arg |-> 0]
    /\ res = NoneVal
    /\ muts = 0

(* the call's outcome r = [tag, h, o]: the heap after it and the object returned *)
Produce(name, arg, r) ==
    /\ op.name = "new"
    /\ op' = [name |-> name, arg |-> arg]
    /\ heap' = r.h
    /\ R' = r.o
    /\ res' = [tag |-> r.tag, val |-> 0]
    /\ UNCHANGED <<A, B, muts>>

Ks == {-1, 0, 2}

(* the valid elementary row operations on n rows *)
Kws(n) ==
    {Kw(i, j, 0, TRUE, FALSE) : i \in 0..(n - 1), j \in 0..(n - 1)}
    \cup {Kw(i, 0, k, FALSE, TRUE) : i \in 0..(n - 1), k \in Ks}
    \cup UNION {{Kw(i, j, k, TRUE, TRUE) : i \in 0..(n - 1), j \in 0..(n - 1)} : k \in Ks}

DoElem == \E kw \in Kws(Len(A.list)) : Produce("elem", kw, elem(heap, A, kw))

(* Matrix.elementary(n, **kwargs) @ A *)
DoElementaryMatmul ==
    \E kw \in Kws(Len(A.list)) :
        LET e == Matrix_elementary(heap, Len(A.list), kw)
        IN  Produce("elementary_matmul", kw, matmul_obj(e.h, e.o, A))

NextElem == DoElem \/ DoElementaryMatmul

SpecElem == InitShapes(Shapes \cup UNION {AllMatrices(m, n) : m \in 1..2, n \in 1..2})
            /\ [][NextElem]_vars

Ends == {Absent} \cup {Given(v) : v \in (-MaxIdx)..MaxIdx}

DoInit ==
    \E rws \in {<<>>, <<<<>>>>, <<<<>>, <<>>>>, Val(heap, A)} :
        Produce("init", rws, Matrix_init(heap, rws))

DoZero ==
    \E m \in 0..MaxN, n \in 0..MaxN :
        LET z == Matrix_zero(heap, m, n)
        IN  Produce("zero", <<m, n>>, Done(z.h, z.o))

Slice(E) ==
    \E i0 \in E, i1 \in E, j0 \in E, j1 \in E :
        Produce("getslice", <<i0, i1, j0, j1>>,
                Filled(heap, getslice(Val(heap, A), i0, i1, j0, j1)))

DoSlice == Slice(Ends)

DoSubmatrix ==
    \E delr \in SUBSET (0..(Len(A.list) - 1)), delc \in SUBSET (0..(Len(heap[A.list[1]]) - 1)) :
        Produce("submatrix", <<delr, delc>>,
                LET a == Alloc(heap, submatrix(Val(heap, A), delr, delc))
                IN  Done(a.h, a.o))

NextSlice == DoInit \/ DoZero \/ DoSlice \/ DoSubmatrix

SpecSlice == InitShapes({M3} \cup {Coded(m, n) : m \in 1..2, n \in 1..2})
             /\ [][NextSlice]_vars

-----------------------------------------------------------------------------
(* Two operands A and B, one operation returning a new matrix R, then
   in-place operations on any of the three *)

(* The m x n matrix with ones on the diagonal and zeros below it *)
Tri(m, n) == [r \in 1..m |-> [c \in 1..n |-> IF c < r THEN 0 ELSE IF c = r THEN 1 ELSE r + c]]

(* B is A itself, or a second matrix of A's shape or of its transpose's *)
InitAlias ==
    /\ \E m \in 1..MaxA, n \in 1..MaxA :
          \E LA \in {Coded(m, n), Tri(m, n)} :
              /\ A = Fresh(LA)
              /\ \/ heap = LA /\ B = A
                 \/ \E LB \in {mul(Coded(m, n), 10), mul(Coded(n, m), 10)} :
                       /\ heap = LA \o LB
                       /\ B = Obj([i \in 1..Len(LB) |-> m + i])
    /\ R = NoObj
    /\ op = [name |-> "new", arg |-> 0]
    /\ res = NoneVal
    /\ muts = 0

Last(o) == Len(o.list) - 1

(* one row operation of each kind *)
KwsFew(o) == {Kw(0, Last(o), 0, TRUE, FALSE), Kw(0, 0, 2, FALSE, TRUE),
              Kw(Last(o), 0, 2, TRUE, TRUE)}

DoAdd == Produce("add", 0, add(heap, A, B))

DoMul == Produce("mul", 2, mul_obj(heap, A, 2))

DoMatmul == Produce("matmul", 0, matmul_obj(heap, A, B))

(* negative powers of a matrix whose inverse has fractional entries are left
   out: the heap holds integers *)
DoPowObj ==
    \E p \in (-MaxPow)..MaxPow :
        /\ op.name = "new"
        /\ LET inv == inverse(Val(heap, A))
           IN  (p < 0 /\ IsOk(inv)) => inv.val.den \in {1, -1}
        /\ Produce("pow", p, pow_obj(heap, A, p))

DoElemFew == \E kw \in KwsFew(A) : Produce("elem", kw, elem(heap, A, kw))

DoTranspose == Produce("transpose", 0, transpose_obj(heap, A))

DoCopy == Produce("copy", 0, copy(heap, A))

DoSliceFew == Slice({Absent, Given(1)})

DoConstruct == Produce("init", 0, Matrix_init(heap, Val(heap, A)))

ObjOf(t) == IF t = "A" THEN A ELSE IF t = "B" THEN B ELSE R

Targets == {t \in {"A", "B", "R"} : ObjOf(t).live /\ Len(ObjOf(t).list) > 0}

(* an in-place call on target t with outcome r = [tag, h, o] *)
InPlace(name, t, arg, r) ==
    /\ op.name # "new"
    /\ muts < MaxMut
    /\ op' = [name |-> name, arg |-> [target |-> t, with |-> arg]]
    /\ heap' = r.h
    /\ res' = [tag |-> r.tag, val |-> 0]
    /\ muts' = muts + 1
    /\ UNCHANGED <<A, B, R>>

DoIAdd == \E t \in Targets, u \in Targets : InPlace("iadd", t, u, iadd(heap, ObjOf(t), ObjOf(u)))

DoIMul == \E t \in Targets : InPlace("imul", t, 2, imul(heap, ObjOf(t), 2))

DoSetItem ==
    \E t \in Targets :
        LET o == ObjOf(t)
            n == Len(heap[o.list[1]])
        IN  /\ n > 0
            /\ \E pos \in {<<0, 0>>, <<Last(o), n - 1>>} :
                  InPlace("setitem", t, pos, Done(setitem(heap, o, pos[1], pos[2], 7), o))

DoFill ==
    \E t \in Targets :
        InPlace("fill", t, 0,
                Done(fill(heap, ObjOf(t), Lam("index", NoObj, NoObj, 0, <<>>)), ObjOf(t)))

DoRowSwap ==
    \E t \in Targets :
        InPlace("rowswap", t, 0, rowswap(heap, ObjOf(t), 0, Last(ObjOf(t))))

DoRowMult == \E t \in Targets : InPlace("rowmult", t, 0, rowmult(heap, ObjOf(t), 0, 2))

DoRowAdd ==
    \E t \in Targets :
        InPlace("rowadd", t, 0, rowadd(heap, ObjOf(t), Last(ObjOf(t)), 0, 2))

DoIElem ==
    \E t \in Targets :
        \E kw \in KwsFew(ObjOf(t)) : InPlace("ielem", t, kw, ielem(heap, ObjOf(t), kw))

NextAlias ==
    \/ DoAdd \/ DoMul \/ DoMatmul \/ DoPowObj \/ DoElemFew \/ DoTranspose \/ DoCopy
    \/ DoSliceFew \/ DoConstruct
    \/ DoIAdd \/ DoIMul \/ DoSetItem \/ DoFill \/ DoRowSwap \/ DoRowMult \/ DoRowAdd
    \/ DoIElem

SpecAlias == InitAlias /\ [][NextAlias]_vars

-----------------------------------------------------------------------------
(* Reference definitions the claims are stated with *)

IsRect(L) == Len(L) >= 1 /\ Len(L[1]) >= 1 /\ \A i \in 1..Len(L) : Len(L[i]) = Len(L[1])

IsSquareN(L) == IsRect(L) /\ Len(L) = Len(L[1])

Perms(n) == {f \in [1..n -> 1..n] : \A i, j \in 1..n : f[i] = f[j] => i = j}

Inversions(f, n) == Cardinality({<<i, j>> \in (1..n) \X (1..n) : i < j /\ f[i] > f[j]})

RECURSIVE ProdDiag(_, _, _)
ProdDiag(L, f, i) == IF i > Len(L) THEN 1 ELSE L[i][f[i]] * ProdDiag(L, f, i + 1)

RECURSIVE SumOver(_, _, _)
SumOver(S, L, n) ==
    IF S = {} THEN 0
    ELSE LET f == CHOOSE g \in S : TRUE
         IN  Sign(Inversions(f, n)) * ProdDiag(L, f, 1) + SumOver(S \ {f}, L, n)

(* The determinant as the Leibniz sum over permutations *)
Leibniz(L) == SumOver(Perms(Len(L)), L, Len(L))

FracEq(X, Y) == mul(X.num, Y.den) = mul(Y.num, X.den)

FracFracMatmul(X, Y) == Frac(matmul(X.num, Y.num).val, X.den * Y.den)

(* k >= 1 copies of X multiplied together *)
RECURSIVE FracPower(_, _)
FracPower(X, k) == IF k <= 1 THEN X ELSE FracFracMatmul(FracPower(X, k - 1), X)

-----------------------------------------------------------------------------
(* C1: for every square matrix A (n >= 1) with a non-zero determinant,
   A.inverse() returns a matrix and A @ A.inverse() is the identity: with the
   inverse as adjugate(minors) / det, A @ adjugate(minors) = det * identity. *)
C1_InverseIsRightInverse ==
    LET L == Val(heap, A)
    IN  (op.name = "inverse" /\ IsSquareN(L) /\ Leibniz(L) # 0) =>
            /\ IsOk(res)
            /\ res.val.den = Leibniz(L)
            /\ matmul(L, res.val.num) = Ok(mul(identity(Len(L)), res.val.den))

(* C2: for every non-empty A, is_invertible is true exactly when A is square
   with a non-zero determinant, and is_singular is its negation. *)
C2_InvertibleIffSquareNonzeroDet ==
    LET L == Val(heap, A)
        invertible == IsSquareN(L) /\ Leibniz(L) # 0
    IN  /\ op.name = "is_invertible" => res = Ok(invertible)
        /\ op.name = "is_singular" => res = Ok(~invertible)

(* C3: for every invertible A and p < 0, A ** p is the product of |p| copies
   of A.inverse(). *)
C3_NegativePowerIsInversePower ==
    LET L == Val(heap, A)
        inv == inverse(L)
    IN  (op.name = "pow" /\ op.arg < 0 /\ IsOk(inv)) =>
            IsOk(res) /\ FracEq(res.val, FracPower(inv.val, -op.arg))

(* C4: for every non-empty A that is non-square, or square with determinant 0,
   A.inverse() returns None and raises nothing. *)
C4_NoInverseIsNone ==
    LET L == Val(heap, A)
    IN  (op.name = "inverse" /\ (~IsSquareN(L) \/ Leibniz(L) = 0)) => res = NoneVal

(* C9: for every square n x n matrix with n >= 2, determinant() returns the
   standard determinant (a*d - b*c for 2 x 2, the Leibniz sum in general) and
   leaves the matrix as it was; for a non-empty non-square matrix it raises the
   not-square error. *)
C9_DeterminantIsStandard ==
    [][op'.name = "determinant" =>
          LET L == Val(heap, A)
          IN  /\ Val(heap', A') = L
              /\ (IsSquareN(L) /\ Len(L) >= 2) => res' = Ok(Leibniz(L))
              /\ (IsSquareN(L) /\ Len(L) = 2) =>
                     res' = Ok(L[1][1] * L[2][2] - L[1][2] * L[2][1])
              /\ ~IsSquareN(L) => res' = Raise("ValueError")]_vars

C9_Witness ==
    LET L == Val(heap, A)
    IN  /\ op.name = "determinant"
        /\ Len(L) = 3 /\ Len(L[1]) = 3
        /\ L[1][2] # 0
        /\ IsOk(res) /\ res.val < 0

AllZero(row) == \A c \in 1..Len(row) : row[c] = 0

Lead(row) == CHOOSE c \in 1..Len(row) : row[c] # 0 /\ \A d \in 1..(c - 1) : row[d] = 0

(* C6: for every non-empty matrix, is_echelon is true exactly when (1) every
   row after an all-zero row, the last row included, is all zero, and (2) for
   every non-zero row with a row below it, the entry directly below its first
   non-zero column is zero. *)
C6_EchelonExactly ==
    LET L == Val(heap, A)
        n == Len(L)
        zerosLast == \A r \in 1..n, t \in 1..n : (r < t /\ AllZero(L[r])) => AllZero(L[t])
        belowLead == \A r \in 1..(n - 1) : ~AllZero(L[r]) => L[r + 1][Lead(L[r])] = 0
    IN  op.name = "is_echelon" => res = Ok(zerosLast /\ belowLead)

IsEmpty(L) == Len(L) = 0 \/ Len(L[1]) = 0

(* C5: every empty matrix produced by the constructor, zero(m, n), a slice or
   submatrix can be asked its rows and columns, and both are 0. *)
C5_EmptyIsZeroByZero ==
    LET E == Val(heap, R)
    IN  (op.name \in {"init", "zero", "getslice", "submatrix"} /\ res.tag = "ok" /\ IsEmpty(E)) =>
            rows(E) = 0 /\ columns(E) = Ok(0)

Min(a, b) == IF a < b THEN a ELSE b

Max(a, b) == IF a > b THEN a ELSE b

(* Python's slice.indices for step 1 *)
PyStart(e, len) ==
    IF e.none THEN 0 ELSE IF e.v < 0 THEN Max(e.v + len, 0) ELSE Min(e.v, len)

PyStop(e, len) ==
    IF e.none THEN len ELSE IF e.v < 0 THEN Max(e.v + len, 0) ELSE Min(e.v, len)

PySlice(L, i0, i1, j0, j1) ==
    LET a == PyStart(i0, Len(L))
        b == PyStop(i1, Len(L))
        c == PyStart(j0, Len(L[1]))
        d == PyStop(j1, Len(L[1]))
    IN  IF b <= a \/ d <= c THEN <<>>
        ELSE [r \in 1..(b - a) |-> [k \in 1..(d - c) |-> L[a + r][c + k]]]

(* C7: M[rowRange, colRange] is the Python slice of M for every pair of
   ranges, of any magnitude, and never fails: the selected rows restricted to
   the selected columns, the empty matrix for an empty extent. *)
C7_SliceIsPythonSlice ==
    op.name = "getslice" =>
        /\ res.tag = "ok"
        /\ Val(heap, R) = PySlice(Val(heap, A), op.arg[1], op.arg[2], op.arg[3], op.arg[4])

(* C10: for every matrix A with n rows and every valid elementary row
   operation, Matrix.elementary(n, op) @ A equals A.elem(op) entry by entry,
   and only row i (and row j for a swap) differs from A. *)
C10_ElementaryMatmulIsElem ==
    LET L == Val(heap, A)
        kw == op.arg
        touched == IF kw.hasj /\ ~kw.hask THEN {kw.i, kw.j} ELSE {kw.i}
        e == Matrix_elementary(heap, Len(L), kw)
        viaMatrix == matmul(Val(e.h, e.o), L)
        x == elem(heap, A, kw)
    IN  (op.name \in {"elem", "elementary_matmul"}) =>
            /\ res.tag = "ok"
            /\ viaMatrix = Ok(Val(heap, R))
            /\ x.tag = "ok" /\ Val(x.h, x.o) = Val(heap, R)
            /\ \A r \in 1..Len(L) : (r - 1) \notin touched => Val(heap, R)[r] = L[r]

C10_Witness ==
    /\ op.name = "elementary_matmul"
    /\ op.arg = Kw(2, 0, 2, TRUE, TRUE)
    /\ Val(heap, A) = M3
    /\ Val(heap, R) = <<<<4, 2, 3, 1, 4>>, <<0, 2, 1, 4, 0>>, <<8, 4, 6, 5, 8>>>>

InPlaceNames == {"iadd", "imul", "setitem", "fill", "rowswap", "rowmult", "rowadd", "ielem"}

(* C8: the copy-producing operations (+, * k, @, ** p, elem, transpose, copy,
   slice, the constructor) leave every operand as it was, and the matrix they
   return shares no storage with an operand: an in-place operation on the
   result changes no operand, and one on an operand does not change the
   result. *)
C8_CopiesShareNothing ==
    [][/\ (op.name = "new" /\ op'.name # "new") =>
              /\ Val(heap', A') = Val(heap, A)
              /\ Val(heap', B') = Val(heap, B)
       /\ (op'.name \in InPlaceNames /\ op'.arg.target = "R") =>
              /\ Val(heap', A') = Val(heap, A)
              /\ Val(heap', B') = Val(heap, B)
       /\ (op'.name \in InPlaceNames /\ op'.arg.target \in {"A", "B"}) =>
              Val(heap', R') = Val(heap, R)]_vars

C8_Witness ==
    /\ op.name = "rowadd"
    /\ op.arg.target = "R"
    /\ res.tag = "ok"
    /\ Val(heap, A) = Coded(2, 2)
    /\ Val(heap, R) = <<<<2, 4>>, <<10, 16>>>>

=============================================================================
